---- MODULE Spec2Model ----
(***************************************************************************)
(* Request-scoped correlated logging (cccteam/logger).                      *)
(*                                                                         *)
(* One HTTP request is served by one of the exporters' middlewares (aws,   *)
(* gcp, console) or, without a middleware, by the stderr fallback logger   *)
(* (std).  The handler goroutine and one goroutine it started issue log    *)
(* calls, AddRequestAttribute calls and attributer operations on the       *)
(* loggers of the request; the middleware then reads the root's aggregate  *)
(* and emits the parent entry.  Go maps are reference values: they live in *)
(* `maps` and loggers, attributers and the middleware hold references.     *)
(***************************************************************************)
EXTENDS Integers, Sequences, FiniteSets, TLC

VARIABLES
    backend,    \* which exporter serves the request: "aws", "gcp", "console", "std"
    logAll,     \* the handler's logAll field (aws, gcp)
    nodes,      \* the loggers of the request; nodes[1] is the root
    builders,   \* the attributers obtained so far
    maps,       \* the heap of map[string]any values
    th,         \* per goroutine: position inside the operation it executes
    mw,         \* the middleware's ServeHTTP frame
    emitted,    \* entries handed to the sink, in order
    hist,       \* history of the calls made (what was asked, not what was stored)
    cap,        \* how many operations of each kind user code performs in this request
    ctxs,       \* the context.Context values built so far (accessor specification)
    acc,        \* the outcome of the last accessor call (accessor specification)
    sw,         \* the response recorder (recorder specification)
    tid         \* a request's trace sources and the trace ID derived (trace specification)

\* the state of the components specified on their own
aux == <<ctxs, acc, sw, tid>>

vars == <<backend, logAll, nodes, builders, maps, th, mw, emitted, hist, cap, aux>>

-----------------------------------------------------------------------------
(* Bounds of the model *)

MaxCalls == 2       \* log calls per request
MaxReqAttrs == 2    \* AddRequestAttribute calls per request
MaxDerive == 2      \* attributers obtained, and children materialized
MaxAdds == 2        \* AddAttribute calls per request

Goroutines == {"h", "g"}    \* the handler's goroutine and one it started
Statuses == {200, 404, 500}

\* The requests explored, by what user code does with the logger: two goroutines
\* logging; two goroutines adding request attributes; a handler adding a request
\* attribute somewhere in a chain of derived loggers; a handler logging from a chain
\* of derived loggers; a handler filling one attributer; a handler that adds a
\* request attribute and logs.
Profiles ==
    { [calls |-> MaxCalls, req |-> 0, derive |-> MaxDerive - 1, adds |-> 0, go |-> TRUE],
      [calls |-> 0, req |-> MaxReqAttrs, derive |-> MaxDerive - 1, adds |-> 0, go |-> TRUE],
      [calls |-> 0, req |-> 1, derive |-> MaxDerive, adds |-> 0, go |-> FALSE],
      [calls |-> 1, req |-> 0, derive |-> MaxDerive, adds |-> MaxAdds - 1, go |-> FALSE],
      [calls |-> 1, req |-> 0, derive |-> MaxDerive - 1, adds |-> MaxAdds, go |-> FALSE],
      [calls |-> 1, req |-> 1, derive |-> MaxDerive - 1, adds |-> 0, go |-> FALSE] }

-----------------------------------------------------------------------------
(* Severities *)

Sev == {"Debug", "Info", "Warn", "Error"}

slogLevelDebug == -4
slogLevelInfo == 0
slogLevelWarn == 4
slogLevelError == 8

loggingDefault == 0
loggingDebug == 100
loggingInfo == 200
loggingWarning == 400
loggingError == 500

\* the level a Debug/Info/Warn/Error method passes to log / console
Level(b, s) ==
    IF b = "aws"
    THEN CASE s = "Debug" -> slogLevelDebug
           [] s = "Info"  -> slogLevelInfo
           [] s = "Warn"  -> slogLevelWarn
           [] s = "Error" -> slogLevelError
    ELSE CASE s = "Debug" -> loggingDebug
           [] s = "Info"  -> loggingInfo
           [] s = "Warn"  -> loggingWarning
           [] s = "Error" -> loggingError

\* maxLevel / maxSeverity of a root logger after construction
RootBaseline(b) ==
    CASE b = "aws"     -> slogLevelInfo      \* zero value of slog.Level
      [] b = "gcp"     -> loggingDefault     \* zero value of logging.Severity
      [] b = "console" -> loggingInfo
      [] OTHER         -> loggingDefault

\* maxLevel / maxSeverity of a materialized child
ChildBaseline(b) ==
    CASE b = "aws"     -> slogLevelInfo
      [] b = "gcp"     -> loggingDefault
      [] b = "console" -> loggingDebug
      [] OTHER         -> loggingDefault

-----------------------------------------------------------------------------
(* Keys and maps *)

customPrefix == "custom_"
parentLogEntry == "Parent Log Entry"
gcpMessageKey == "message"
ChildMsg == "m"

\* reserved keys of child (trace) attributes
rsvdKeys(b) ==
    CASE b = "aws" -> {"trace_id", "span_id"}
      [] b = "gcp" -> {gcpMessageKey}
      [] OTHER     -> {}

\* (faulty variant: request attributes are checked against the child keys only)
ChildKeysOnly(b) == rsvdKeys(b)

\* reserved keys of request attributes
rsvdReqKeys(b) ==
    CASE b = "aws" -> {"trace_id", "span_id", "http.elapsed", "http.method", "http.url",
                       "http.status_code", "http.response.length", "http.user_agent",
                       "http.remote_ip", "http.scheme", "http.proto"}
      [] b = "gcp" -> {gcpMessageKey}
      [] b = "console" -> {"requestSize", "responseSize", "logCount"}
      [] OTHER     -> {}

\* keys user code passes: an ordinary one and one the backend reserves
UserKeys(b) ==
    CASE b = "aws" -> {"k", "trace_id"}
      [] b = "gcp" -> {"k", gcpMessageKey}
      [] b = "console" -> {"k", "logCount"}
      [] OTHER     -> {"k", "j"}

\* keys user code passes to AddRequestAttribute: those, and the name a reserved key
\* is stored under
UserReqKeys(b) ==
    UserKeys(b) \cup {customPrefix \o k : k \in UserKeys(b) \cap rsvdReqKeys(b)}

\* (faulty variant: the key is stored as given)
KeepKey(rsvd, key) == key

\* if slices.Contains(rsvd, key) { key = customPrefix + key }
Rename(rsvd, key) == IF key \in rsvd THEN customPrefix \o key ELSE key

EmptyMap == [k \in {} |-> 0]
\* (faulty variant: an existing entry keeps its value)
PutIfAbsent(m, k, v) ==
    [x \in (DOMAIN m) \cup {k} |-> IF x \in DOMAIN m THEN m[x] ELSE v]

\* m[k] = v
Put(m, k, v) == [x \in (DOMAIN m) \cup {k} |-> IF x = k THEN v ELSE m[x]]

\* Values are opaque to the code (type any): each call passes one not passed before
\* (request attributes get negative numbers, child attributes positive ones)
ReqValue == 0 - (hist.reqCalls + 1)
AttrValue == hist.nattr + 1

NilMap == 0                     \* a nil map reference
NewMap(ms) == Len(ms) + 1       \* the reference make(map[string]any) returns
\* the heap after writing content c through reference r
Store(ms, r, c) == IF r = Len(ms) + 1 THEN Append(ms, c) ELSE [ms EXCEPT ![r] = c]

-----------------------------------------------------------------------------
(* Initial state: the middleware has created the root and called the handler *)

Idle == [pc |-> "idle", l |-> 0, level |-> 0, raw |-> "", key |-> "", val |-> 0,
         rmax |-> 0, rcnt |-> 0]

\* awsTraceIDFromRequest / gcpTraceIDFromRequest: the trace ID of the request, on
\* gcp formatted as a trace reference; the console and stderr loggers have none
TraceIDFromRequest(b) ==
    CASE b = "aws" -> "id"
      [] b = "gcp" -> "projects/p/traces/" \o "id"
      [] OTHER     -> ""

\* newAWSLogger / newGCPLogger / newConsoleLogger / newStdErrLogger
NewRoot(b) == [root |-> 1, traceID |-> TraceIDFromRequest(b), attributes |-> 1,
               reqAttributes |-> IF b = "std" THEN NilMap ELSE 2,
               maxSeverity |-> RootBaseline(b), logCount |-> 0, mu |-> "free"]

\* calls: log calls begun; pending: those whose aggregate update is still to come;
\* levels: the levels they passed; req: per stored key the last value given to a
\* completed AddRequestAttribute; reqAtRet: req when the handler returned; reqLate:
\* keys written after that; chain[n] / bchain[b]: the (key, value) additions made
\* on the path from the root to logger n / attributer b; adds: AddAttribute
\* calls made; nattr: attributes given to attributers so far; callsAtRead: log calls
\* counted when the middleware read the root; levelsAtRead: the levels passed by
\* then; emittedAtRet: entries handed to the sink when the handler returned;
\* given: per logger written to and key as passed, the last value given to a
\* completed AddRequestAttribute.
NoHist == [calls |-> 0, levels |-> {}, pending |-> 0, reqCalls |-> 0,
           req |-> EmptyMap, reqAtRet |-> EmptyMap, reqLate |-> {},
           chain |-> << <<>> >>, bchain |-> <<>>, adds |-> 0, nattr |-> 0,
           callsAtRead |-> 0, levelsAtRead |-> {}, emittedAtRet |-> 0,
           given |-> EmptyMap]

\* the components specified on their own, when they are not exercised
NoCall == [op |-> "none", arg |-> 0, lg |-> 0, out |-> "ok", res |-> 0, n |-> 0]
NoRecorder == [status |-> 0, length |-> 0]
NoTrace == [pc |-> "none"]

Init ==
    /\ backend \in {"aws", "gcp", "console", "std"}
    /\ logAll \in BOOLEAN
    /\ backend \in {"console", "std"} => logAll = TRUE
    /\ nodes = << NewRoot(backend) >>
    /\ builders = <<>>
    /\ maps = IF backend = "std" THEN << EmptyMap >> ELSE << EmptyMap, EmptyMap >>
    /\ th = [t \in Goroutines |-> Idle]
    /\ mw = [pc |-> IF backend = "std" THEN "none" ELSE "handling",
             traceID |-> TraceIDFromRequest(backend), status |-> 0, logCount |-> 0, maxSeverity |-> 0,
             attrsRef |-> NilMap, attrs |-> EmptyMap]
    /\ emitted = <<>>
    /\ hist = NoHist
    /\ cap \in Profiles
    /\ ctxs = <<>> /\ acc = NoCall /\ sw = NoRecorder /\ tid = NoTrace

-----------------------------------------------------------------------------
(* Faulty variants of pieces of the code, each a slip the code could contain *)

\* a log call counts on the logger it was made on
LogTargetSelf(l) == l

\* the 5xx threshold on every exporter
ServerErrorsOnly(b) == 499

\* the logAll flag is not consulted
SkipWhenNoLogs(b, la, cnt) == cnt = 0

\* an attributer starts from an empty map
NoInheritedAttributes(l) == EmptyMap

\* the child keeps the attributer's map instead of a copy
AttributerOwnMap(b) == builders[b].attributes

-----------------------------------------------------------------------------
(* The pieces of the code the operations are built from *)

\* (faulty variant: the aggregate is updated without the mutex)
NoLock(n) == TRUE

\* sync.Mutex.Lock returns once the mutex of logger n is free
CanLock(n) == nodes[n].mu = "free"

\* the logger whose maxLevel/maxSeverity and logCount a log call on l updates
LogTarget(l) == nodes[l].root

\* (faulty variant: the level of the last call is kept)
LastLevel(read, cur, level) == level

\* if max < level { max = level }: the maximum after the statement, where read is
\* the value the comparison saw and cur the value the field holds
Raise(read, cur, level) == IF read < level THEN level ELSE cur

\* the logger whose mutex and reqAttributes AddRequestAttribute on l uses
ReqAttrOwner(l) == IF backend = "console" THEN nodes[l].root ELSE l

\* (faulty variant: the child refers to the logger it was derived from)
CreatorAsRoot(l) == l

\* the root a child materialized from an attributer of logger l refers to
ChildRoot(l) == nodes[l].root

\* (faulty variant: the child is created without the trace ID)
NoTraceID(l) == ""

\* the trace ID of a child materialized from an attributer of logger l
ChildTraceID(l) == nodes[l].traceID

\* the map an attributer obtained from logger l starts with
WithAttributesCopy(l) == maps[nodes[l].attributes]

\* the reference of the map held by a new attributer of logger l
WithAttributesRef(l) == NewMap(maps)

\* the reference of the attributes map of the child materialized from attributer b
LoggerAttrsRef(b) == NewMap(maps)

\* the content copied into the child materialized from attributer b
LoggerAttrsCopy(b) == maps[builders[b].attributes]

\* the status above which the parent entry is at least Error
ErrorThreshold(b) == IF b = "console" THEN 499 ELSE 399

\* if !h.logAll && logCount == 0 { return }
SkipParent(b, la, cnt) == b \in {"aws", "gcp"} /\ ~la /\ cnt = 0

\* the process runs until the Go runtime ends it with a fatal error
Running == mw.pc # "fatal"

\* the handler's goroutine acts until the handler returns; the one it started may go on
CanAct(t) ==
    IF t = "h" THEN mw.pc \in {"handling", "none"} ELSE cap.go /\ Running

-----------------------------------------------------------------------------
(* Debug / Info / Warn / Error on a logger of a middleware *)

\* lock the root's mutex and read the aggregate
Log(t, l, s) ==
    /\ backend # "std"
    /\ th[t].pc = "idle" /\ CanAct(t)
    /\ hist.calls < cap.calls
    /\ CanLock(LogTarget(l))
    /\ nodes' = [nodes EXCEPT ![LogTarget(l)].mu = t]
    /\ th' = [th EXCEPT ![t] = [Idle EXCEPT !.pc = "log_write", !.l = l,
                                  !.level = Level(backend, s),
                                  !.rmax = nodes[LogTarget(l)].maxSeverity,
                                  !.rcnt = nodes[LogTarget(l)].logCount]]
    /\ hist' = [hist EXCEPT !.calls = @ + 1, !.pending = @ + 1,
                            !.levels = @ \cup {Level(backend, s)}]
    /\ UNCHANGED <<aux, cap, backend, logAll, builders, maps, mw, emitted>>

\* raise the maximum, count the call, unlock
LogWrite(t) ==
    /\ th[t].pc = "log_write" /\ Running
    /\ LET r == LogTarget(th[t].l) IN
        nodes' = [nodes EXCEPT ![r].maxSeverity = Raise(th[t].rmax, @, th[t].level),
                               ![r].logCount = th[t].rcnt + 1,
                               ![r].mu = "free"]
    /\ th' = [th EXCEPT ![t].pc = "log_emit"]
    /\ hist' = [hist EXCEPT !.pending = @ - 1]
    /\ UNCHANGED <<aux, cap, backend, logAll, builders, maps, mw, emitted>>

\* (faulty variant: the entry also carries the request attributes of the root)
EntryWithRequestAttributes(l, level) ==
    LET own == maps[nodes[l].attributes]
        ref == nodes[nodes[l].root].reqAttributes
        req == IF ref = NilMap THEN EmptyMap ELSE maps[ref]
        all == [x \in (DOMAIN own) \cup (DOMAIN req) |->
                    IF x \in DOMAIN req THEN req[x] ELSE own[x]]
    IN [kind |-> "child", node |-> l, trace |-> nodes[l].traceID, sev |-> level,
        msg |-> ChildMsg,
        fixed |-> IF backend = "aws" THEN {"trace_id", "span_id"} ELSE {},
        attrs |-> IF backend = "gcp" THEN Put(all, gcpMessageKey, ChildMsg) ELSE all,
        count |-> 0]

\* (faulty variant: the entry is written at the level of the aggregate)
EntryAtAggregate(l, level) ==
    [kind |-> "child", node |-> l, trace |-> nodes[l].traceID,
     sev |-> nodes[nodes[l].root].maxSeverity,
     msg |-> ChildMsg,
     fixed |-> IF backend = "aws" THEN {"trace_id", "span_id"} ELSE {},
     attrs |-> IF backend = "gcp"
               THEN Put(maps[nodes[l].attributes], gcpMessageKey, ChildMsg)
               ELSE maps[nodes[l].attributes],
     count |-> 0]

\* the entry a log call on logger l hands to the sink
ChildEntry(l, level) ==
    [kind |-> "child", node |-> l, trace |-> nodes[l].traceID, sev |-> level,
     msg |-> ChildMsg,
     fixed |-> IF backend = "aws" THEN {"trace_id", "span_id"} ELSE {},
     attrs |-> IF backend = "gcp"
               THEN Put(maps[nodes[l].attributes], gcpMessageKey, ChildMsg)
               ELSE maps[nodes[l].attributes],
     count |-> 0]

\* hand the entry with the logger's own attributes to the sink
LogEmit(t) ==
    /\ th[t].pc = "log_emit" /\ Running
    /\ emitted' = Append(emitted, ChildEntry(th[t].l, th[t].level))
    /\ th' = [th EXCEPT ![t] = Idle]
    /\ UNCHANGED <<aux, cap, backend, logAll, nodes, builders, maps, mw, hist>>

\* the stderr fallback logger prints at once and keeps no aggregate
StdLog(t, l, s) ==
    /\ backend = "std"
    /\ th[t].pc = "idle" /\ CanAct(t)
    /\ hist.calls < cap.calls
    /\ emitted' = Append(emitted, ChildEntry(l, Level(backend, s)))
    /\ hist' = [hist EXCEPT !.calls = @ + 1, !.levels = @ \cup {Level(backend, s)}]
    /\ UNCHANGED <<aux, cap, backend, logAll, nodes, builders, maps, th, mw>>

-----------------------------------------------------------------------------
(* AddRequestAttribute *)

\* rename a reserved key, lock the mutex
AddRequestAttribute(t, l, k, v) ==
    /\ backend # "std"
    /\ th[t].pc = "idle" /\ CanAct(t)
    /\ hist.reqCalls < cap.req
    /\ CanLock(ReqAttrOwner(l))
    /\ nodes' = [nodes EXCEPT ![ReqAttrOwner(l)].mu = t]
    /\ th' = [th EXCEPT ![t] = [Idle EXCEPT !.pc = "ra_write", !.l = l,
                                  !.raw = k,
                                  !.key = Rename(rsvdReqKeys(backend), k), !.val = v]]
    /\ hist' = [hist EXCEPT !.reqCalls = @ + 1]
    /\ UNCHANGED <<aux, cap, backend, logAll, builders, maps, mw, emitted>>

\* store the value, unlock (deferred)
RaWrite(t) ==
    /\ th[t].pc = "ra_write" /\ Running
    /\ LET o == ReqAttrOwner(th[t].l)
           r == nodes[o].reqAttributes
       IN /\ r # NilMap
          /\ maps' = [maps EXCEPT ![r] = Put(@, th[t].key, th[t].val)]
          /\ nodes' = [nodes EXCEPT ![o].mu = "free"]
    /\ th' = [th EXCEPT ![t] = Idle]
    /\ hist' = [hist EXCEPT !.req = Put(@, th[t].key, th[t].val),
                            !.given = Put(@, <<ReqAttrOwner(th[t].l), th[t].raw>>,
                                          th[t].val),
                            !.reqLate = IF mw.pc = "handling" THEN @
                                        ELSE @ \cup {th[t].key}]
    /\ UNCHANGED <<aux, cap, backend, logAll, builders, mw, emitted>>

\* on the stderr fallback logger AddRequestAttribute does nothing
StdAddRequestAttribute(t, l, k, v) ==
    /\ backend = "std"
    /\ th[t].pc = "idle" /\ CanAct(t)
    /\ hist.reqCalls < cap.req
    /\ hist' = [hist EXCEPT !.reqCalls = @ + 1]
    /\ UNCHANGED <<aux, cap, backend, logAll, nodes, builders, maps, th, mw, emitted>>

-----------------------------------------------------------------------------
(* Attributers *)

\* awsLogger.WithAttribute / gcpLogger.WithAttribute: copy the logger's attributes
\* into a new map and add the (renamed) key
WithAttribute(t, l, k, v) ==
    /\ backend \in {"aws", "gcp"}
    /\ th[t].pc = "idle" /\ CanAct(t)
    /\ Len(builders) < cap.derive
    /\ LET key == Rename(rsvdKeys(backend), k)
           ref == WithAttributesRef(l)
       IN /\ maps' = Store(maps, ref, Put(WithAttributesCopy(l), key, v))
          /\ builders' = Append(builders, [logger |-> l, attributes |-> ref])
          /\ hist' = [hist EXCEPT !.bchain = Append(@, Append(hist.chain[l], <<key, v>>)),
                                  !.nattr = @ + 1]
    /\ UNCHANGED <<aux, cap, backend, logAll, nodes, th, mw, emitted>>

\* consoleLogger.WithAttributes / stdErrLogger.WithAttributes: copy the logger's
\* attributes into a new map
WithAttributes(t, l) ==
    /\ backend \in {"console", "std"}
    /\ th[t].pc = "idle" /\ CanAct(t)
    /\ Len(builders) < cap.derive
    /\ LET ref == WithAttributesRef(l)
       IN /\ maps' = Store(maps, ref, WithAttributesCopy(l))
          /\ builders' = Append(builders, [logger |-> l, attributes |-> ref])
          /\ hist' = [hist EXCEPT !.bchain = Append(@, hist.chain[l])]
    /\ UNCHANGED <<aux, cap, backend, logAll, nodes, th, mw, emitted>>

\* attributer.AddAttribute: a.attributes[key] = value, the key renamed if reserved
AddAttribute(t, b, k, v) ==
    /\ th[t].pc = "idle" /\ CanAct(t)
    /\ hist.adds < cap.adds
    /\ LET key == Rename(rsvdKeys(backend), k)
       IN /\ maps' = [maps EXCEPT ![builders[b].attributes] = Put(@, key, v)]
          /\ hist' = [hist EXCEPT !.bchain[b] = Append(@, <<key, v>>),
                                  !.adds = @ + 1, !.nattr = @ + 1]
    /\ UNCHANGED <<aux, cap, backend, logAll, nodes, builders, th, mw, emitted>>

\* attributer.Logger: a new child of the same root holding a copy of the
\* attributer's map
Logger(t, b) ==
    /\ th[t].pc = "idle" /\ CanAct(t)
    /\ Len(nodes) - 1 < cap.derive
    /\ LET ref == LoggerAttrsRef(b)
           withAttrs == Store(maps, ref, LoggerAttrsCopy(b))
           ownReq == backend \in {"aws", "gcp"}    \* make(map[string]any) in the child
       IN /\ maps' = IF ownReq THEN Append(withAttrs, EmptyMap) ELSE withAttrs
          /\ nodes' = Append(nodes,
                [root |-> IF backend = "std" THEN Len(nodes) + 1
                          ELSE ChildRoot(builders[b].logger),
                 traceID |-> ChildTraceID(builders[b].logger),
                 attributes |-> ref,
                 reqAttributes |-> IF ownReq THEN Len(withAttrs) + 1 ELSE NilMap,
                 maxSeverity |-> ChildBaseline(backend), logCount |-> 0,
                 mu |-> "free"])
    /\ hist' = [hist EXCEPT !.chain = Append(@, hist.bchain[b])]
    /\ UNCHANGED <<aux, cap, backend, logAll, builders, th, mw, emitted>>

-----------------------------------------------------------------------------
(* The middleware after the handler *)

\* h.next.ServeHTTP returns; the response recorder holds the status
HandlerReturn(st) ==
    /\ mw.pc = "handling"
    /\ th["h"].pc = "idle"
    /\ mw' = [mw EXCEPT !.pc = "final_lock", !.status = st]
    /\ hist' = [hist EXCEPT !.reqAtRet = hist.req, !.emittedAtRet = Len(emitted)]
    /\ UNCHANGED <<aux, cap, backend, logAll, nodes, builders, maps, th, emitted>>

\* l.mu.Lock(); read logCount, the maximum and the request attributes
\* (gcp copies the map, aws and console keep a reference to it)
MwRead ==
    /\ mw.pc = "final_lock"
    /\ CanLock(1)
    /\ nodes' = [nodes EXCEPT ![1].mu = "mw"]
    /\ mw' = [mw EXCEPT !.pc = "final_unlock",
                        !.logCount = nodes[1].logCount,
                        !.maxSeverity = nodes[1].maxSeverity,
                        !.attrsRef = IF backend = "gcp" THEN NilMap
                                     ELSE nodes[1].reqAttributes,
                        !.attrs = IF backend = "gcp" THEN maps[nodes[1].reqAttributes]
                                  ELSE EmptyMap]
    /\ hist' = [hist EXCEPT !.callsAtRead = hist.calls - hist.pending,
                            !.levelsAtRead = hist.levels]
    /\ UNCHANGED <<aux, cap, backend, logAll, builders, maps, th, emitted>>

\* l.mu.Unlock(); the logAll gate; the status floor
MwUnlock ==
    /\ mw.pc = "final_unlock"
    /\ nodes' = [nodes EXCEPT ![1].mu = "free"]
    /\ mw' = IF SkipParent(backend, logAll, mw.logCount)
             THEN [mw EXCEPT !.pc = "done"]
             ELSE [mw EXCEPT !.pc = "build",
                             !.maxSeverity =
                                 IF mw.status > ErrorThreshold(backend)
                                 THEN Raise(@, @, Level(backend, "Error"))
                                 ELSE @]
    /\ UNCHANGED <<aux, cap, backend, logAll, builders, maps, th, emitted, hist>>

\* collect the request attributes of the parent entry: aws and console range
\* over the root's map itself, gcp over its copy and then sets the message
MwBuild ==
    /\ mw.pc = "build"
    /\ mw' = [mw EXCEPT !.pc = "emit",
                        !.attrs = IF backend = "gcp"
                                  THEN Put(@, gcpMessageKey, parentLogEntry)
                                  ELSE maps[mw.attrsRef]]
    /\ UNCHANGED <<aux, cap, backend, logAll, nodes, builders, maps, th, emitted, hist>>

\* a goroutine is between Lock and Unlock of AddRequestAttribute on the map the
\* middleware ranges over without the lock
MapRace ==
    /\ mw.pc = "build"
    /\ mw.attrsRef # NilMap
    /\ \E t \in Goroutines :
          /\ th[t].pc = "ra_write"
          /\ nodes[ReqAttrOwner(th[t].l)].reqAttributes = mw.attrsRef

\* the unsynchronized range and write meet: the runtime may stop the process with
\* "fatal error: concurrent map iteration and map write" (or the range goes on and
\* sees the map before or after the write: MwBuild)
MwFault ==
    /\ MapRace
    /\ mw' = [mw EXCEPT !.pc = "fatal"]
    /\ UNCHANGED <<aux, cap, backend, logAll, nodes, builders, maps, th, emitted, hist>>

\* fields the middleware itself puts into the parent entry beside the attributes
ParentFixed(b) ==
    CASE b = "aws" -> {"trace_id", "span_id", "http.elapsed", "http.method", "http.url",
                       "http.status_code", "http.response.length", "http.user_agent",
                       "http.remote_ip", "http.scheme", "http.proto"}
      [] b = "console" -> {"requestSize", "responseSize", "logCount"}
      [] OTHER -> {}

ParentEntry ==
    [kind |-> "parent", node |-> 1, trace |-> mw.traceID, sev |-> mw.maxSeverity,
     msg |-> IF backend = "console" THEN "request line" ELSE parentLogEntry,
     fixed |-> ParentFixed(backend), attrs |-> mw.attrs, count |-> mw.logCount]

\* (faulty variant: the parent entry is handed to the sink twice)
MwEmitTwice ==
    /\ mw.pc = "emit"
    /\ emitted' = Append(Append(emitted, ParentEntry), ParentEntry)
    /\ mw' = [mw EXCEPT !.pc = "done"]
    /\ UNCHANGED <<aux, cap, backend, logAll, nodes, builders, maps, th, hist>>

\* (faulty variant: the console middleware writes the parent entry itself)
MwEmitDirect ==
    /\ mw.pc = "emit"
    /\ emitted' = Append(emitted, ParentEntry)
    /\ mw' = [mw EXCEPT !.pc = "done"]
    /\ UNCHANGED <<aux, cap, backend, logAll, nodes, builders, maps, th, hist>>

\* hand the parent entry to the sink; the console middleware prints it through the
\* root logger's console(), whose colorPrint updates the root's aggregate
MwEmit ==
    /\ mw.pc = "emit"
    /\ IF backend = "console"
       THEN /\ CanLock(1)
            /\ nodes' = [nodes EXCEPT
                            ![1].maxSeverity = Raise(@, @, mw.maxSeverity),
                            ![1].logCount = @ + 1]
       ELSE UNCHANGED nodes
    /\ emitted' = Append(emitted, ParentEntry)
    /\ mw' = [mw EXCEPT !.pc = "done"]
    /\ UNCHANGED <<aux, cap, backend, logAll, builders, maps, th, hist>>

-----------------------------------------------------------------------------

Next ==
    \/ \E t \in Goroutines, l \in 1..Len(nodes), s \in Sev : Log(t, l, s)
    \/ \E t \in Goroutines : LogWrite(t)
    \/ \E t \in Goroutines : LogEmit(t)
    \/ \E t \in Goroutines, l \in 1..Len(nodes), s \in Sev : StdLog(t, l, s)
    \/ \E t \in Goroutines, l \in 1..Len(nodes), k \in UserReqKeys(backend), v \in {ReqValue} :
          AddRequestAttribute(t, l, k, v)
    \/ \E t \in Goroutines : RaWrite(t)
    \/ \E t \in Goroutines, l \in 1..Len(nodes), k \in UserReqKeys(backend), v \in {ReqValue} :
          StdAddRequestAttribute(t, l, k, v)
    \/ \E t \in {"h"}, l \in 1..Len(nodes), k \in UserKeys(backend), v \in {AttrValue} :
          WithAttribute(t, l, k, v)
    \/ \E t \in {"h"}, l \in 1..Len(nodes) : WithAttributes(t, l)
    \/ \E t \in {"h"}, b \in 1..Len(builders), k \in UserKeys(backend), v \in {AttrValue} :
          AddAttribute(t, b, k, v)
    \/ \E t \in {"h"}, b \in 1..Len(builders) : Logger(t, b)
    \/ \E st \in Statuses : HandlerReturn(st)
    \/ MwRead
    \/ MwUnlock
    \/ MwBuild
    \/ MwFault
    \/ MwEmit

Spec == Init /\ [][Next]_vars

-----------------------------------------------------------------------------
(* The same request under fair scheduling: the Go scheduler runs every goroutine
   that can run, so a goroutine inside an operation takes its next step, and so
   does the middleware once the handler has returned (the sink returns). *)

Fairness ==
    /\ \A t \in Goroutines :
          WF_vars(LogWrite(t)) /\ WF_vars(LogEmit(t)) /\ WF_vars(RaWrite(t))
    /\ WF_vars(MwRead) /\ WF_vars(MwUnlock) /\ WF_vars(MwBuild) /\ WF_vars(MwEmit)

FairSpec == Init /\ [][Next]_vars /\ Fairness

-----------------------------------------------------------------------------
(* The accessors: Ctx / Req, fromCtx / fromReq and NewContext.

   The middleware has bound the root logger to the request's context.  User code,
   in one goroutine, derives contexts (binding a logger, nothing, or a value under
   a key of its own) and logs or adds request attributes through Ctx(ctx) and
   Req(r).  A context is immutable and refers to its parent; a panic ends the
   goroutine. *)

MaxCtxs == 4        \* contexts, the background and the request's context included
MaxAccess == 2      \* calls through an accessor

NilCtx == 0         \* a nil context.Context
Background == 1     \* context.Background()
NilLogger == 0      \* a nil ctxLogger
NoBinding == -1     \* the context binds nothing under logKey
NilReq == 0         \* a nil *http.Request
EmptyReq == -1      \* &http.Request{}: its ctx field is nil

\* newStdErrLogger(): the stderr logger whose attributes are the map at ref
newStdErrLogger(ref) ==
    [root |-> Len(nodes) + 1, traceID |-> "", attributes |-> ref,
     reqAttributes |-> NilMap, maxSeverity |-> loggingDefault, logCount |-> 0,
     mu |-> "free"]

\* the logger is a *stdErrLogger
IsStdErr(n) == nodes[n].root = n /\ nodes[n].reqAttributes = NilMap

\* (faulty variant: the first logger bound on the way from the background wins)
RECURSIVE OutermostValue(_)
OutermostValue(c) ==
    IF c = NilCtx THEN NoBinding
    ELSE LET up == OutermostValue(ctxs[c].parent)
         IN IF up # NoBinding THEN up ELSE ctxs[c].lg

\* ctx.Value(logKey): the value of the nearest context on the way to the
\* background that binds logKey
RECURSIVE Value(_)
Value(c) ==
    IF c = NilCtx THEN NoBinding
    ELSE IF ctxs[c].lg # NoBinding THEN ctxs[c].lg
    ELSE Value(ctxs[c].parent)

\* (faulty variant: without a bound logger the request's root is returned)
RootWhenMissing(c) ==
    IF c # NilCtx /\ Value(c) > 0 THEN Value(c) ELSE 1

\* fromCtx: the logger in the context, or a new stderr logger (the reference of
\* the logger about to be allocated) when ctx is nil or the value under logKey is
\* not a ctxLogger
fromCtx(c) ==
    IF c = NilCtx THEN Len(nodes) + 1
    ELSE IF Value(c) > 0 THEN Value(c)
    ELSE Len(nodes) + 1

\* r.Context() of a non-nil request
RequestContext(r) == IF r = EmptyReq THEN Background ELSE r

\* fromReq: a new stderr logger for a nil request, else fromCtx(r.Context())
fromReq(r) == IF r = NilReq THEN Len(nodes) + 1 ELSE fromCtx(RequestContext(r))

\* Ctx(ctx): &Logger{ctx: ctx, lg: fromCtx(ctx)}
Ctx(c) == [out |-> "ok", res |-> fromCtx(c)]

\* Req(r): &Logger{ctx: r.Context(), lg: fromReq(r)}; r.Context() dereferences r
Req(r) ==
    IF r = NilReq THEN [out |-> "panic", res |-> 0]
    ELSE [out |-> "ok", res |-> fromReq(r)]

\* the loggers after the accessor returned lg (a stderr logger is allocated)
WithLogger(lg) ==
    IF lg = Len(nodes) + 1 THEN Append(nodes, newStdErrLogger(NewMap(maps))) ELSE nodes
WithLoggerMaps(lg) ==
    IF lg = Len(nodes) + 1 THEN Append(maps, EmptyMap) ELSE maps

\* what stdErrLogger.std prints
StdEntry(ns, ms, l, s) ==
    [kind |-> "std", node |-> l, trace |-> "", sev |-> Level("std", s),
     msg |-> ChildMsg, fixed |-> {}, attrs |-> ms[ns[l].attributes], count |-> 0]

InitCtx ==
    /\ backend \in {"aws", "gcp", "console"}
    /\ logAll = TRUE
    /\ nodes = << NewRoot(backend) >>
    /\ builders = <<>>
    /\ maps = << EmptyMap, EmptyMap >>
    /\ th = [t \in Goroutines |-> Idle]
    /\ mw = [pc |-> "handling", traceID |-> TraceIDFromRequest(backend), status |-> 0,
             logCount |-> 0, maxSeverity |-> 0, attrsRef |-> NilMap, attrs |-> EmptyMap]
    /\ emitted = <<>>
    /\ hist = NoHist
    /\ cap = [calls |-> MaxAccess, req |-> MaxAccess, derive |-> 0, adds |-> 0,
              go |-> FALSE]
    /\ ctxs = << [parent |-> NilCtx, lg |-> NoBinding], [parent |-> Background, lg |-> 1] >>
    /\ acc = NoCall
    /\ sw = NoRecorder /\ tid = NoTrace

\* the goroutine has not panicked and may make another call
CtxCanCall == acc.out = "ok" /\ acc.n < cap.calls

\* NewContext(ctx, l): context.WithValue(ctx, logKey, l), which panics for a nil
\* parent
NewContext(c, l) ==
    /\ acc.out = "ok" /\ Len(ctxs) < MaxCtxs
    /\ IF c = NilCtx
       THEN /\ acc' = [acc EXCEPT !.op = "NewContext", !.arg = c, !.lg = l,
                                  !.out = "panic", !.res = 0]
            /\ UNCHANGED ctxs
       ELSE /\ ctxs' = Append(ctxs, [parent |-> c, lg |-> l])
            /\ acc' = [acc EXCEPT !.op = "NewContext", !.arg = c, !.lg = l,
                                  !.res = Len(ctxs) + 1]
    /\ UNCHANGED <<backend, logAll, nodes, builders, maps, th, mw, emitted, hist, cap,
                   sw, tid>>

\* context.WithValue(ctx, k, v) with a key of the caller's own
WithOtherValue(c) ==
    /\ acc.out = "ok" /\ Len(ctxs) < MaxCtxs
    /\ ctxs' = Append(ctxs, [parent |-> c, lg |-> NoBinding])
    /\ acc' = [acc EXCEPT !.op = "WithValue", !.arg = c, !.lg = NoBinding,
                          !.res = Len(ctxs) + 1]
    /\ UNCHANGED <<backend, logAll, nodes, builders, maps, th, mw, emitted, hist, cap,
                   sw, tid>>

\* Logger.Debug / Info / Warn / Error on the logger the accessor call a returned:
\* l.lg.Info(l.ctx, v)
LoggerLog(name, arg, a, s) ==
    /\ acc' = [acc EXCEPT !.op = name, !.arg = arg, !.lg = 0, !.out = a.out,
                          !.res = a.res, !.n = @ + 1]
    /\ IF a.out = "panic" THEN UNCHANGED <<nodes, maps, emitted>>
       ELSE LET ns == WithLogger(a.res)
                ms == WithLoggerMaps(a.res)
            IN /\ maps' = ms
               /\ IF ns[a.res].root = a.res /\ ns[a.res].reqAttributes = NilMap
                  THEN /\ nodes' = ns
                       /\ emitted' = Append(emitted, StdEntry(ns, ms, a.res, s))
                  ELSE /\ nodes' = [ns EXCEPT
                              ![LogTarget(a.res)].maxSeverity =
                                  Raise(@, @, Level(backend, s)),
                              ![LogTarget(a.res)].logCount = @ + 1]
                       /\ emitted' = Append(emitted, ChildEntry(a.res, Level(backend, s)))
    /\ UNCHANGED <<backend, logAll, builders, th, mw, hist, cap, ctxs, sw, tid>>

\* Logger.AddRequestAttribute on the logger the accessor call a returned:
\* l.lg.AddRequestAttribute(key, value), a no-op on the stderr logger
LoggerAddRequestAttribute(name, arg, a, k, v) ==
    /\ acc' = [acc EXCEPT !.op = name, !.arg = arg, !.lg = 0, !.out = a.out,
                          !.res = a.res, !.n = @ + 1]
    /\ IF a.out = "panic" THEN UNCHANGED <<nodes, maps>>
       ELSE LET ns == WithLogger(a.res)
                ms == WithLoggerMaps(a.res)
            IN /\ nodes' = ns
               /\ IF ns[a.res].root = a.res /\ ns[a.res].reqAttributes = NilMap
                  THEN maps' = ms
                  ELSE maps' = [ms EXCEPT ![ns[ReqAttrOwner(a.res)].reqAttributes] =
                                    Put(@, Rename(rsvdReqKeys(backend), k), v)]
    /\ UNCHANGED <<backend, logAll, builders, th, mw, emitted, hist, cap, ctxs, sw, tid>>

CtxLog(c, s) == CtxCanCall /\ LoggerLog("Ctx", c, Ctx(c), s)
ReqLog(r, s) == CtxCanCall /\ LoggerLog("Req", r, Req(r), s)
CtxAddRequestAttribute(c, k, v) ==
    CtxCanCall /\ LoggerAddRequestAttribute("Ctx", c, Ctx(c), k, v)
ReqAddRequestAttribute(r, k, v) ==
    CtxCanCall /\ LoggerAddRequestAttribute("Req", r, Req(r), k, v)

NextCtx ==
    \/ \E c \in 0..Len(ctxs), l \in 0..Len(nodes) : NewContext(c, l)
    \/ \E c \in 1..Len(ctxs) : WithOtherValue(c)
    \/ \E c \in 0..Len(ctxs), s \in {"Info", "Error"} : CtxLog(c, s)
    \/ \E r \in -1..Len(ctxs), s \in {"Info", "Error"} : ReqLog(r, s)
    \/ \E c \in 0..Len(ctxs), k \in {"k"} : CtxAddRequestAttribute(c, k, 0 - (acc.n + 1))
    \/ \E r \in -1..Len(ctxs), k \in {"k"} : ReqAddRequestAttribute(r, k, 0 - (acc.n + 1))

SpecCtx == InitCtx /\ [][NextCtx]_vars

-----------------------------------------------------------------------------
(* The trace ID of a request: awsTraceIDFromRequest / gcpTraceIDFromRequest.

   The span context of the request's context, the X-Cloud-Trace-Context header
   and the ID generator are inputs; the middleware derives the trace ID and
   creates the root logger with it. *)

NoSpan == "none"                    \* the span context is not valid
SpanTraceIDs == {"a", "b"}          \* trace IDs of a valid span context
NoHeader == "none"                  \* no X-Cloud-Trace-Context header
BadHeader == "bad"                  \* a header SpanContextFromRequest rejects
HeaderTraceIDs == {"a", "c"}        \* trace IDs of a well-formed header
GeneratedIDs == {"g", "h"}          \* what idgen() returns
ProjectIDs == {"p", "q"}

\* new(propagation.HTTPFormat).SpanContextFromRequest(r)
SpanContextFromRequest(hdr) ==
    IF hdr \in HeaderTraceIDs THEN [ok |-> TRUE, traceID |-> hdr]
    ELSE [ok |-> FALSE, traceID |-> ""]

\* (faulty variant: the header is looked at before the span context)
HeaderFirst(sc, hdr, gen) ==
    IF SpanContextFromRequest(hdr).ok
    THEN [traceID |-> SpanContextFromRequest(hdr).traceID, genCalls |-> 0]
    ELSE IF sc # NoSpan THEN [traceID |-> sc, genCalls |-> 0]
    ELSE [traceID |-> gen, genCalls |-> 1]

\* the choice gcpTraceIDFromRequest makes, and whether it called idgen
gcpChoice(sc, hdr, gen) ==
    IF sc # NoSpan THEN [traceID |-> sc, genCalls |-> 0]
    ELSE IF SpanContextFromRequest(hdr).ok
    THEN [traceID |-> SpanContextFromRequest(hdr).traceID, genCalls |-> 0]
    ELSE [traceID |-> gen, genCalls |-> 1]

\* the choice awsTraceIDFromRequest makes
awsChoice(sc, hdr, gen) ==
    IF sc # NoSpan THEN [traceID |-> sc, genCalls |-> 0]
    ELSE [traceID |-> gen, genCalls |-> 1]

\* fmt.Sprintf("projects/%s/traces/%s", projectID, traceID)
gcpFormat(projectID, traceID) == "projects/" \o projectID \o "/traces/" \o traceID

InitTrace ==
    /\ backend \in {"aws", "gcp"}
    /\ logAll = TRUE
    /\ nodes = <<>> /\ builders = <<>> /\ maps = <<>>
    /\ th = [t \in Goroutines |-> Idle]
    /\ mw = [pc |-> "start", traceID |-> "", status |-> 0, logCount |-> 0,
             maxSeverity |-> 0, attrsRef |-> NilMap, attrs |-> EmptyMap]
    /\ emitted = <<>>
    /\ hist = NoHist
    /\ cap = [calls |-> 0, req |-> 0, derive |-> 0, adds |-> 0, go |-> FALSE]
    /\ ctxs = <<>> /\ acc = NoCall /\ sw = NoRecorder
    /\ tid \in [pc : {"request"}, sc : {NoSpan} \cup SpanTraceIDs,
                hdr : {NoHeader, BadHeader} \cup HeaderTraceIDs,
                gen : GeneratedIDs, project : ProjectIDs,
                genCalls : {0}]

awsTraceIDFromRequest ==
    /\ backend = "aws" /\ mw.pc = "start"
    /\ LET c == awsChoice(tid.sc, tid.hdr, tid.gen)
       IN /\ mw' = [mw EXCEPT !.pc = "traced", !.traceID = c.traceID]
          /\ tid' = [tid EXCEPT !.pc = "done", !.genCalls = c.genCalls]
    /\ UNCHANGED <<backend, logAll, nodes, builders, maps, th, emitted, hist, cap,
                   ctxs, acc, sw>>

gcpTraceIDFromRequest ==
    /\ backend = "gcp" /\ mw.pc = "start"
    /\ LET c == gcpChoice(tid.sc, tid.hdr, tid.gen)
       IN /\ mw' = [mw EXCEPT !.pc = "traced",
                              !.traceID = gcpFormat(tid.project, c.traceID)]
          /\ tid' = [tid EXCEPT !.pc = "done", !.genCalls = c.genCalls]
    /\ UNCHANGED <<backend, logAll, nodes, builders, maps, th, emitted, hist, cap,
                   ctxs, acc, sw>>

\* newAWSLogger(h.logger, traceID) / newGCPLogger(g.childLogger, traceID)
NewLogger ==
    /\ mw.pc = "traced"
    /\ nodes' = << [NewRoot(backend) EXCEPT !.traceID = mw.traceID] >>
    /\ maps' = << EmptyMap, EmptyMap >>
    /\ mw' = [mw EXCEPT !.pc = "handling"]
    /\ UNCHANGED <<aux, backend, logAll, builders, th, emitted, hist, cap>>

NextTrace == awsTraceIDFromRequest \/ gcpTraceIDFromRequest \/ NewLogger

SpecTrace == InitTrace /\ [][NextTrace]_vars

-----------------------------------------------------------------------------
(* The response recorder the middleware hands to the handler.

   The handler calls WriteHeader and Write in any order; the writer underneath
   reports for each Write how many bytes it took and whether it failed. *)

MaxWrites == 3          \* Write calls
MaxHeaders == 2         \* WriteHeader calls
MaxChunk == 2           \* bytes passed to one Write

httpStatusOK == 200
HeaderStatuses == {200, 404, 500}

\* &recorder{ResponseWriter: w}; headers, last, writes, reported and errs record
\* the calls made: WriteHeader calls and the status of the latest, Write calls,
\* the bytes the writer underneath reported, and the Write calls that failed
newResponseRecorder ==
    [status |-> 0, length |-> 0, headers |-> 0, last |-> 0, writes |-> 0,
     reported |-> 0, errs |-> 0]

\* recorder.Status
Status(r) == IF r.status = 0 THEN httpStatusOK ELSE r.status

\* recorder.Length
Length(r) == r.length

\* (faulty variant: the bytes of a failed Write are not counted)
CountOnSuccess(length, n, failed) == IF failed THEN length ELSE length + n

\* r.length += int64(n), before the error is looked at
LengthAfterWrite(length, n, failed) == length + n

InitRec ==
    /\ backend \in {"aws", "gcp", "console"}
    /\ logAll = TRUE
    /\ nodes = << NewRoot(backend) >>
    /\ builders = <<>>
    /\ maps = << EmptyMap, EmptyMap >>
    /\ th = [t \in Goroutines |-> Idle]
    /\ mw = [pc |-> "handling", traceID |-> TraceIDFromRequest(backend), status |-> 0,
             logCount |-> 0, maxSeverity |-> 0, attrsRef |-> NilMap, attrs |-> EmptyMap]
    /\ emitted = <<>>
    /\ hist = NoHist
    /\ cap = [calls |-> 0, req |-> 0, derive |-> 0, adds |-> 0, go |-> FALSE]
    /\ ctxs = <<>> /\ acc = NoCall /\ tid = NoTrace
    /\ sw = newResponseRecorder

\* recorder.WriteHeader
WriteHeader(st) ==
    /\ mw.pc = "handling" /\ sw.headers < MaxHeaders
    /\ sw' = [sw EXCEPT !.status = st, !.headers = @ + 1, !.last = st]
    /\ UNCHANGED <<backend, logAll, nodes, builders, maps, th, mw, emitted, hist, cap,
                   ctxs, acc, tid>>

\* recorder.Write of len bytes, of which the writer underneath reports n
Write(len, n, failed) ==
    /\ mw.pc = "handling" /\ sw.writes < MaxWrites
    /\ n <= len /\ (~failed => n = len)
    /\ sw' = [sw EXCEPT !.length = LengthAfterWrite(@, n, failed),
                        !.writes = @ + 1, !.reported = @ + n,
                        !.errs = @ + (IF failed THEN 1 ELSE 0)]
    /\ UNCHANGED <<backend, logAll, nodes, builders, maps, th, mw, emitted, hist, cap,
                   ctxs, acc, tid>>

\* the handler returns and the middleware reads sw.Status()
RecHandlerReturn ==
    /\ mw.pc = "handling"
    /\ mw' = [mw EXCEPT !.pc = "final_lock", !.status = Status(sw)]
    /\ UNCHANGED <<aux, backend, logAll, nodes, builders, maps, th, emitted, hist, cap>>

NextRec ==
    \/ \E st \in HeaderStatuses : WriteHeader(st)
    \/ \E len \in 0..MaxChunk, n \in 0..MaxChunk, failed \in BOOLEAN : Write(len, n, failed)
    \/ RecHandlerReturn

SpecRec == InitRec /\ [][NextRec]_vars

-----------------------------------------------------------------------------
(* Properties *)

Entries(kind) == {emitted[i] : i \in {j \in 1..Len(emitted) : emitted[j].kind = kind}}

MaxOf(S) == CHOOSE x \in S : \A y \in S : y <= x

\* the map a sequence of (key, value) additions builds, later ones overriding
RECURSIVE Fold(_)
Fold(c) ==
    IF c = <<>> THEN EmptyMap
    ELSE Put(Fold(SubSeq(c, 1, Len(c) - 1)), c[Len(c)][1], c[Len(c)][2])

AllIdle == \A t \in Goroutines : th[t].pc = "idle"
MwHasRead == mw.pc \in {"final_unlock", "build", "emit", "done", "fatal"}


\* C1: the root's logCount is the number of log calls made on the root or on any
\* logger derived from it: at every moment it counts the calls that have updated the
\* aggregate, the middleware reads exactly that number after the handler returned
\* (all N calls when no goroutine outlives the handler), and the parent entry
\* reports it.
C1_LogCountIsNumberOfCalls ==
    backend # "std" =>
        /\ ~(backend = "console" /\ mw.pc = "done") =>
               nodes[1].logCount = hist.calls - hist.pending
        /\ MwHasRead => mw.logCount = hist.callsAtRead
        /\ MwHasRead /\ ~cap.go => mw.logCount = hist.calls
        /\ \A e \in Entries("parent") : e.count = hist.callsAtRead

\* two calls, one of them on a derived logger, and the middleware has read 2
C1_Witness ==
    /\ mw.pc = "final_unlock"
    /\ hist.calls = 2 /\ mw.logCount = 2
    /\ \E e \in Entries("child") : e.node > 1

\* C2 (as stated): after N >= 1 log calls the root's maxSeverity is the maximum of
\* the severities passed (Debug when every call was Debug), and the baseline after
\* none.
C2_MaxSeverityIsMaxOfCalls ==
    (backend # "std" /\ hist.pending = 0 /\ ~(backend = "console" /\ mw.pc = "done")) =>
        nodes[1].maxSeverity = IF hist.calls = 0 THEN RootBaseline(backend)
                               ELSE MaxOf(hist.levels)

\* C3 (as stated): on every exporter a status above 399 puts the parent entry at
\* Error or above.
C3_Above399IsError ==
    \A e \in Entries("parent") :
        mw.status > 399 => e.sev >= Level(backend, "Error")

\* C3 (amended): a status above 399 on aws and gcp, above 499 on console, puts the
\* parent entry at Error or above, whatever the log calls of the request were.
C3_StatusFloor ==
    \A e \in Entries("parent") :
        ( \/ backend \in {"aws", "gcp"} /\ mw.status > 399
          \/ backend = "console" /\ mw.status > 499 )
        => e.sev >= Level(backend, "Error")

\* status 500, no log call, logAll set: a parent entry at Error counting 0 calls
C3_Witness ==
    /\ backend = "aws" /\ logAll /\ mw.status = 500 /\ hist.calls = 0
    /\ \E e \in Entries("parent") : e.sev = slogLevelError /\ e.count = 0

\* C4: once the middleware is done, no parent entry was emitted if and only if
\* logAll is false and no log call had been counted.
C4_ParentOmittedIff ==
    (backend # "std" /\ mw.pc = "done") =>
        (Entries("parent") = {} <=> (~logAll /\ hist.callsAtRead = 0))

\* logAll false and a request without log calls: the middleware ends without an entry
C4_Witness ==
    /\ backend = "aws" /\ mw.pc = "done" /\ ~logAll
    /\ hist.calls = 0 /\ emitted = <<>>

\* C5 (as stated): a completed AddRequestAttribute, on the root or on a child or
\* grandchild, has stored its key and value in the ROOT's request attributes, and
\* no derived logger holds request attributes of its own.
C5_StoredInRoot ==
    backend # "std" =>
        /\ \A k \in DOMAIN hist.req :
               /\ k \in DOMAIN maps[nodes[1].reqAttributes]
               /\ maps[nodes[1].reqAttributes][k] = hist.req[k]
        /\ \A n \in 2..Len(nodes) :
               \/ nodes[n].reqAttributes = NilMap
               \/ maps[nodes[n].reqAttributes] = EmptyMap

\* C6 (as stated): the parent entry carries every key given to AddRequestAttribute
\* on the root or a derived logger before the handler returned, with the last
\* value given.
C6_ParentHasRequestAttributes ==
    \A e \in Entries("parent") :
        \A k \in DOMAIN hist.reqAtRet :
            /\ k \in DOMAIN e.attrs
            /\ hist.reqLate = {} => e.attrs[k] = hist.req[k]

\* C7 (as stated): when two goroutines have made all their log calls, the root's
\* logCount is the number of calls and its maxSeverity the highest severity passed.
C7_ConcurrentCallsAggregate ==
    (backend # "std" /\ cap.go /\ mw.pc = "handling" /\ AllIdle /\ hist.calls >= 2) =>
        /\ nodes[1].logCount = hist.calls
        /\ nodes[1].maxSeverity = MaxOf(hist.levels)

\* C8 (as stated): the root's request attributes are never read without the root's
\* mutex while a goroutine is writing them: the middleware does not range over the
\* map while an AddRequestAttribute is between its Lock and Unlock, and the runtime
\* never reports a concurrent map access.
C8_NoUnlockedAccess == ~MapRace /\ mw.pc # "fatal"

\* C9: the attributes of an entry logged on a derived logger are the attributes its
\* source logger had at derivation, overridden and extended by the attributes added
\* to the attributer, in order; the same along a chain of derivations (on gcp the
\* payload also holds the message).
C9_ChildAttributes ==
    \A e \in Entries("child") :
        e.attrs = IF backend = "gcp"
                  THEN Put(Fold(hist.chain[e.node]), gcpMessageKey, ChildMsg)
                  ELSE Fold(hist.chain[e.node])

\* a grandchild obtained by WithAttribute("k", ..) twice logs: it shows the second value
C9_Witness ==
    \E e \in Entries("child") :
        /\ hist.adds = 0
        /\ Len(hist.chain[e.node]) = 2
        /\ hist.chain[e.node][1][1] = "k" /\ hist.chain[e.node][2][1] = "k"
        /\ e.attrs["k"] = hist.chain[e.node][2][2]
        /\ e.attrs["k"] # hist.chain[e.node][1][2]

\* C10: AddAttribute on an attributer changes that attributer's map only: the
\* attributes of every logger (the source logger, its ancestors, children already
\* materialized), the maps of the other attributers and the request attributes stay
\* as they were.
C10_AddAttributeFrame ==
    [][ \A b \in 1..Len(builders), k \in UserKeys(backend) :
            AddAttribute("h", b, k, AttrValue) =>
                /\ \A n \in 1..Len(nodes) :
                       /\ maps'[nodes[n].attributes] = maps[nodes[n].attributes]
                       /\ nodes[n].reqAttributes # NilMap =>
                              maps'[nodes[n].reqAttributes] = maps[nodes[n].reqAttributes]
                /\ \A c \in 1..Len(builders) :
                       c # b => maps'[builders[c].attributes] = maps[builders[c].attributes]
                /\ maps'[builders[b].attributes] # maps[builders[b].attributes]
      ]_vars

\* AddAttribute was called on an attributer after a child was materialized from it:
\* the child still holds what the attributer held then
C10_Witness ==
    /\ Len(builders) = 1 /\ Len(nodes) = 2 /\ hist.adds >= 1
    /\ Len(hist.chain[2]) < Len(hist.bchain[1])
    /\ maps[nodes[2].attributes] # maps[builders[1].attributes]

\* the key the documentation promises for key k against the reserved set rsvd
Stored(rsvd, k) == IF k \in rsvd THEN "custom_" \o k ELSE k

\* map r gains or overwrites the entry key -> val, every other map stays as it is
WritesEntry(r, key, val) ==
    /\ DOMAIN maps'[r] = DOMAIN maps[r] \cup {key}
    /\ maps'[r][key] = val
    /\ \A q \in DOMAIN maps : q # r => maps'[q] = maps[q]

\* no request-attribute map holds a key of the reserved request keys, no attribute
\* map (of a logger or an attributer) a key of the reserved child keys
NoReservedLiteral ==
    /\ \A n \in 1..Len(nodes) :
           /\ DOMAIN maps[nodes[n].attributes] \cap rsvdKeys(backend) = {}
           /\ nodes[n].reqAttributes # NilMap =>
                  DOMAIN maps[nodes[n].reqAttributes] \cap rsvdReqKeys(backend) = {}
    /\ \A b \in 1..Len(builders) :
           DOMAIN maps[builders[b].attributes] \cap rsvdKeys(backend) = {}

\* C11: an attribute whose key is reserved is stored under "custom_" + key and no
\* entry exists under the reserved key itself, a key that is not reserved is stored
\* as given; for AddRequestAttribute against the reserved request keys, for
\* WithAttribute and AddAttribute against the reserved child keys.
C11_ReservedKeysRenamed ==
    [][ /\ NoReservedLiteral'
        /\ \A t \in Goroutines, l \in 1..Len(nodes), k \in UserKeys(backend) :
               AddRequestAttribute(t, l, k, ReqValue) =>
                   th'[t].key = Stored(rsvdReqKeys(backend), k)
        /\ \A t \in Goroutines :
               RaWrite(t) => \E r \in DOMAIN maps : WritesEntry(r, th[t].key, th[t].val)
        /\ \A b \in 1..Len(builders), k \in UserKeys(backend) :
               AddAttribute("h", b, k, AttrValue) =>
                   WritesEntry(builders[b].attributes,
                               Stored(rsvdKeys(backend), k), AttrValue)
        /\ \A l \in 1..Len(nodes), k \in UserKeys(backend) :
               WithAttribute("h", l, k, AttrValue) =>
                   LET r == builders'[Len(builders) + 1].attributes
                       key == Stored(rsvdKeys(backend), k)
                   IN /\ maps'[r][key] = AttrValue
                      /\ DOMAIN maps'[r] = DOMAIN maps[nodes[l].attributes] \cup {key}
      ]_vars

\* on aws AddRequestAttribute("trace_id", ..) and WithAttribute("trace_id", ..) have
\* both stored custom_trace_id
C11_Witness ==
    /\ backend = "aws"
    /\ "custom_trace_id" \in DOMAIN maps[nodes[1].reqAttributes]
    /\ \E b \in 1..Len(builders) : "custom_trace_id" \in DOMAIN maps[builders[b].attributes]

\* the entries of map r other than key are as they were
OthersKept(r, key) == \A x \in DOMAIN maps[r] \ {key} : maps'[r][x] = maps[r][x]

\* C12: adding a key with AddRequestAttribute, or with AddAttribute on an
\* attributer, leaves the map with one entry for that key holding the value just
\* given, also when the key was there with another value, and leaves every other
\* entry of the map as it was.
C12_LastValueWins ==
    [][ /\ \A t \in Goroutines :
               RaWrite(t) =>
                   \E r \in DOMAIN maps : /\ WritesEntry(r, th[t].key, th[t].val)
                                          /\ OthersKept(r, th[t].key)
        /\ \A b \in 1..Len(builders), k \in UserKeys(backend) :
               AddAttribute("h", b, k, AttrValue) =>
                   \E key \in {k, "custom_" \o k} :
                       /\ WritesEntry(builders[b].attributes, key, AttrValue)
                       /\ OthersKept(builders[b].attributes, key)
      ]_vars

\* on console two AddRequestAttribute("k", ..) calls have completed: the root holds
\* the one entry k with the second value
C12_Witness ==
    /\ backend = "console" /\ hist.reqCalls = 2 /\ AllIdle
    /\ DOMAIN maps[nodes[1].reqAttributes] = {"k"}
    /\ maps[nodes[1].reqAttributes]["k"] = 0 - 2

\* the root's aggregate when the middleware read it, from the calls made
AggregateAtRead == MaxOf({RootBaseline(backend)} \cup hist.levelsAtRead)

\* C13: the severity of the parent entry is never below the root's aggregated
\* maxSeverity (as read by the middleware once the handler has returned) and
\* equals it when the status does not force Error: above 399 on aws and gcp,
\* above 499 on console; with no log call that is the backend's baseline.
C13_ParentSeverityIsAggregate ==
    \A e \in Entries("parent") :
        /\ e.sev >= AggregateAtRead
        /\ ~( \/ backend \in {"aws", "gcp"} /\ mw.status > 399
              \/ backend = "console" /\ mw.status > 499 )
           => e.sev = AggregateAtRead
        /\ (~cap.go /\ backend # "console") => e.sev >= nodes[1].maxSeverity

\* one Warn and one Info call, status 200, logAll set: the parent entry is at Warn
\* and counts 2
C13_Witness ==
    /\ backend = "aws" /\ logAll /\ mw.status = 200
    /\ hist.levels = {slogLevelWarn, slogLevelInfo}
    /\ \E e \in Entries("parent") : e.sev = slogLevelWarn /\ e.count = 2

\* positions of the parent entries among the entries handed to the sink
ParentIdx == {i \in 1..Len(emitted) : emitted[i].kind = "parent"}

\* the middleware's progress: Handling, Finalizing (lock, unlock, build, emit), Done
Rank(pc) ==
    CASE pc = "handling" -> 0
      [] pc = "final_lock" -> 1
      [] pc = "final_unlock" -> 2
      [] pc = "build" -> 3
      [] pc = "emit" -> 4
      [] pc = "fatal" -> 4
      [] OTHER -> 5

\* C14: the middleware moves forward only, one stage at a time, the logAll gate
\* being the one shortcut to Done; the handler is never entered again; the parent
\* entry is emitted at most once, in the step that ends the request and so after
\* the handler has returned and after every entry the handler's own goroutine
\* emitted; a request that ends without the gate applying has emitted it once.
C14_LinearMiddleware ==
    [][ backend # "std" =>
          /\ mw.pc' # mw.pc =>
                 \/ Rank(mw.pc') = Rank(mw.pc) + 1
                 \/ mw.pc = "final_unlock" /\ mw.pc' = "done"
          /\ Cardinality(ParentIdx') <= 1
          /\ ParentIdx' # ParentIdx => mw.pc = "emit" /\ mw.pc' = "done"
          /\ (mw.pc' = "done" /\ ~(~logAll /\ hist'.callsAtRead = 0)) =>
                 Cardinality(ParentIdx') = 1
          /\ \A i \in ParentIdx' :
                 /\ i > hist'.emittedAtRet
                 /\ ~cap.go => i = Len(emitted')
      ]_vars

\* the handler logged on a derived logger and returned, the middleware is done: the
\* child entry is followed by the one parent entry
C14_Witness ==
    /\ backend = "gcp" /\ mw.pc = "done" /\ Len(emitted) = 2
    /\ emitted[1].kind = "child" /\ emitted[1].node > 1
    /\ emitted[2].kind = "parent"

\* C15: every logger of the request, at any depth, holds the trace ID the root was
\* created with, and every entry emitted for the request, child or parent, carries
\* it (the console and stderr loggers have no trace ID: theirs is empty throughout).
C15_OneCorrelationID ==
    /\ nodes[1].traceID = TraceIDFromRequest(backend)
    /\ \A n \in 1..Len(nodes) : nodes[n].traceID = nodes[1].traceID
    /\ \A i \in 1..Len(emitted) : emitted[i].trace = nodes[1].traceID

\* on gcp a grandchild has logged and the parent entry is out: both carry the
\* request's trace reference
C15_Witness ==
    /\ backend = "gcp" /\ Len(emitted) = 2 /\ hist.adds = 0
    /\ emitted[1].kind = "child" /\ Len(hist.chain[emitted[1].node]) = 2
    /\ emitted[2].kind = "parent"
    /\ emitted[1].trace = "projects/p/traces/id" /\ emitted[2].trace = "projects/p/traces/id"

\* C16: every logger of a middleware's request, the root and the children derived
\* at any depth, refers to the root; a child of a child refers to the root, not to
\* the child it was derived from; the reference is the same in every state.
C16_SameRoot ==
    backend # "std" => \A n \in 1..Len(nodes) : nodes[n].root = 1

\* a grandchild exists (two WithAttribute derivations in a row) and refers to the root
C16_Witness ==
    /\ backend = "aws" /\ Len(nodes) = 3 /\ hist.adds = 0
    /\ Len(hist.chain[3]) = 2 /\ builders[2].logger = 2
    /\ nodes[3].root = 1

\* C17: no step of the request, on any logger of the tree, lowers the root's
\* maxSeverity.
C17_MaxSeverityMonotone ==
    [][ nodes'[1].maxSeverity >= nodes[1].maxSeverity ]_vars

\* two goroutines have logged Error and Debug, on the root and on a child; the
\* root stays at Error
C17_Witness ==
    /\ backend = "gcp" /\ cap.go /\ hist.calls = 2 /\ hist.pending = 0
    /\ hist.levels = {loggingError, loggingDebug}
    /\ \E e \in Entries("child") : e.node > 1
    /\ nodes[1].maxSeverity = loggingError

\* C18 (as stated): in every state up to and including Done the root's logCount is
\* the number of log calls user code has made, on every backend: the emission of
\* the parent entry is not counted.
C18_EmissionNotCounted ==
    backend # "std" => nodes[1].logCount + hist.pending = hist.calls

\* C19 (as stated): a materialized child has the creator's root and trace ID, the
\* attributes of the attributer it came from, nil request attributes, logCount 0
\* and the baseline maxSeverity.
C19_ChildMaterialized ==
    \A n \in 2..Len(nodes) :
        /\ backend # "std" => nodes[n].root = nodes[1].root
        /\ nodes[n].traceID = nodes[1].traceID
        /\ maps[nodes[n].attributes] = Fold(hist.chain[n])
        /\ nodes[n].reqAttributes = NilMap
        /\ nodes[n].logCount = 0
        /\ nodes[n].maxSeverity = ChildBaseline(backend)

\* C20: an entry emitted by a log call holds the attributes of the logger it was
\* called on and nothing else beside the message, trace and span fields: no key
\* or value given to AddRequestAttribute, whichever logger it was given to.
C20_NoRequestAttributesInChildEntries ==
    \A e \in Entries("child") :
        LET own == maps[nodes[e.node].attributes]
            user == DOMAIN e.attrs \ (IF backend = "gcp" THEN {gcpMessageKey} ELSE {})
        IN /\ user = DOMAIN own
           /\ \A k \in user : e.attrs[k] = own[k] /\ e.attrs[k] > 0
           /\ e.fixed \subseteq {"trace_id", "span_id"}

\* a request attribute k is stored in the root and a child whose attributes hold k
\* has logged: the entry shows the child's value
C20_Witness ==
    /\ backend = "aws" /\ hist.reqCalls = 1 /\ AllIdle
    /\ "k" \in DOMAIN maps[nodes[1].reqAttributes]
    /\ \E e \in Entries("child") :
          /\ e.node > 1 /\ "k" \in DOMAIN e.attrs
          /\ e.attrs["k"] # maps[nodes[1].reqAttributes]["k"]

ChildIdx == {i \in 1..Len(emitted) : emitted[i].kind = "child"}
\* log calls that have taken the lock and not yet handed their entry to the sink
InFlight == {t \in Goroutines : th[t].pc \in {"log_write", "log_emit"}}

\* C26: every Debug/Info/Warn/Error call hands one entry to the sink, with the
\* level and message of that call and on behalf of the logger it was made on,
\* whatever the aggregate holds; nothing else adds a child entry; at every moment
\* the child entries and the calls still on their way add up to the calls made,
\* and while the handler runs and no call is on its way the child entries are as
\* many as the root's logCount.
C26_OneEntryPerCall ==
    [][ /\ \A t \in Goroutines :
              (th[t].pc = "log_emit" /\ th'[t].pc = "idle") =>
                  /\ Len(emitted') = Len(emitted) + 1
                  /\ SubSeq(emitted', 1, Len(emitted)) = emitted
                  /\ emitted'[Len(emitted')].kind = "child"
                  /\ emitted'[Len(emitted')].sev = th[t].level
                  /\ emitted'[Len(emitted')].msg = ChildMsg
                  /\ emitted'[Len(emitted')].node = th[t].l
        /\ (backend = "std" /\ hist'.calls = hist.calls + 1) =>
              /\ Len(emitted') = Len(emitted) + 1
              /\ emitted'[Len(emitted')].kind = "child"
              /\ emitted'[Len(emitted')].sev \in hist'.levels
        /\ ChildIdx' # ChildIdx =>
              \/ \E t \in Goroutines : th[t].pc = "log_emit" /\ th'[t].pc = "idle"
              \/ backend = "std" /\ hist'.calls = hist.calls + 1
        /\ Cardinality(ChildIdx') + Cardinality(InFlight') = hist'.calls
        /\ (backend' # "std" /\ AllIdle' /\ mw'.pc = "handling") =>
              Cardinality(ChildIdx') = nodes'[1].logCount
      ]_vars

\* an Error call, then a Debug call: the second entry is at Debug although the
\* aggregate is at Error
C26_Witness ==
    /\ backend = "gcp" /\ mw.pc = "handling" /\ AllIdle
    /\ Len(emitted) = 2 /\ nodes[1].logCount = 2
    /\ emitted[1].sev = loggingError /\ emitted[2].sev = loggingDebug
    /\ nodes[1].maxSeverity = loggingError

\* C27: in every emitted entry the keys the middleware or the logger fills in
\* (trace id, span id, elapsed time, HTTP and size/count fields; on gcp the payload's
\* message) are apart from the keys that hold user values, so no key occurs twice
\* and none of them carries a user value; the message and the trace ID are the
\* logger's own; the user values of a parent entry are all request values, those of
\* a child entry all child attribute values.
C27_MiddlewareKeysKeepTheirValues ==
    \A i \in 1..Len(emitted) :
        LET e == emitted[i]
            user == DOMAIN e.attrs \ (IF backend = "gcp" THEN {gcpMessageKey} ELSE {})
        IN /\ e.fixed \cap DOMAIN e.attrs = {}
           /\ e.fixed = IF e.kind = "parent" THEN ParentFixed(backend)
                        ELSE IF backend = "aws" THEN {"trace_id", "span_id"} ELSE {}
           /\ backend = "gcp" =>
                 gcpMessageKey \in DOMAIN e.attrs /\ e.attrs[gcpMessageKey] = e.msg
           /\ e.msg = IF e.kind = "child" THEN ChildMsg
                      ELSE IF backend = "console" THEN "request line" ELSE parentLogEntry
           /\ e.trace = TraceIDFromRequest(backend)
           /\ \A k \in user : IF e.kind = "parent" THEN e.attrs[k] < 0 ELSE e.attrs[k] > 0

\* the handler passed the reserved key logCount to AddRequestAttribute on the
\* console exporter: the parent entry has its own logCount and the user's value
\* under custom_logCount
C27_Witness ==
    /\ backend = "console" /\ mw.pc = "done"
    /\ \E e \in Entries("parent") :
          /\ "logCount" \in e.fixed
          /\ customPrefix \o "logCount" \in DOMAIN e.attrs
          /\ e.attrs[customPrefix \o "logCount"] < 0

\* C28 (as stated): request attributes given under different keys are stored under
\* different keys: for every logger written to, each key passed to a completed
\* AddRequestAttribute has its last value in that logger's map, and the map has as
\* many entries as different keys were passed.
C28_RenamingNeverMerges ==
    \A o \in 1..Len(nodes) :
        LET passed == {p \in DOMAIN hist.given : p[1] = o}
        IN passed # {} =>
              /\ \A p \in passed :
                    \E k \in DOMAIN maps[nodes[o].reqAttributes] :
                        maps[nodes[o].reqAttributes][k] = hist.given[p]
              /\ Cardinality(DOMAIN maps[nodes[o].reqAttributes]) = Cardinality(passed)

\* C29 (as stated): under fair scheduling every operation a goroutine has begun
\* comes to its end, and once the handler has returned the middleware comes to
\* its end.
C29_EveryOperationTerminates ==
    /\ \A t \in Goroutines : (th[t].pc # "idle") ~> (th[t].pc = "idle")
    /\ (mw.pc = "final_lock") ~> (mw.pc = "done")

\* the lock discipline the claim rests on: whenever an entry is handed to the sink
\* no logger's mutex is held by the caller, and no goroutine or the middleware
\* holds two mutexes.
C29_NoSinkCallUnderLock ==
    [][ /\ emitted' # emitted =>
              /\ \A t \in Goroutines :
                    (th'[t] # th[t]) => \A n \in 1..Len(nodes) : nodes[n].mu # t
              /\ mw' # mw => \A n \in 1..Len(nodes) : nodes[n].mu # "mw"
        /\ \A t \in Goroutines \cup {"mw"} :
              Cardinality({n \in 1..Len(nodes') : nodes'[n].mu = t}) <= 1
      ]_vars

C21_FallbackIsApart ==
    [][ (acc'.n = acc.n + 1 /\ acc'.op = "Ctx") =>
          LET c == acc'.arg
              bound == c # NilCtx /\ Value(c) > 0
              lg == acc'.res
          IN /\ acc'.out = "ok"
             /\ bound => lg = Value(c) /\ Len(nodes') = Len(nodes)
             /\ ~bound =>
                   /\ lg = Len(nodes) + 1 /\ Len(nodes') = Len(nodes) + 1
                   /\ nodes'[lg].root = lg /\ nodes'[lg].reqAttributes = NilMap
                   /\ nodes'[lg].attributes = Len(maps) + 1
                   /\ maps'[nodes'[lg].attributes] = EmptyMap
                   /\ \A n \in 1..Len(nodes) : nodes'[n] = nodes[n]
                   /\ \A m \in 1..Len(maps) : maps'[m] = maps[m]
                   /\ Len(emitted') > Len(emitted) =>
                         emitted'[Len(emitted')].kind = "std"
      ]_vars

\* a log call through the request's context was counted by the root; a later one
\* through a nil context went to a stderr logger and the root still counts 1
C21_Witness ==
    /\ acc.op = "Ctx" /\ acc.arg = NilCtx /\ acc.n = 2
    /\ acc.res = 2 /\ IsStdErr(2)
    /\ nodes[1].logCount = 1
    /\ Len(emitted) = 2 /\ emitted[1].kind = "child" /\ emitted[2].kind = "std"

\* C22 (as stated): a call through Req(r) with a nil request does not fail and
\* uses a stderr logger; with a non-nil request it uses what Ctx gives for
\* r.Context(): the logger bound there, or a stderr logger.
C22_NilRequestFallsBack ==
    acc.op = "Req" =>
        /\ acc.out = "ok"
        /\ IF acc.arg # NilReq /\ Value(RequestContext(acc.arg)) > 0
           THEN acc.res = Value(RequestContext(acc.arg))
           ELSE IsStdErr(acc.res)

\* C23 (as stated): NewContext(ctx, l) returns, for every ctx and every logger l,
\* a context from which the accessor gets l.
C23_EveryContextRoundTrips ==
    (acc.op = "NewContext" /\ acc.lg # NilLogger) =>
        acc.out = "ok" /\ fromCtx(acc.res) = acc.lg

\* C23 (amended): for every non-nil context ctx and logger l, NewContext(ctx, l)
\* returns a new context from which the accessor gets l, also when ctx or one of
\* its ancestors binds another logger; every context that existed is unchanged and
\* the accessor gets from it what it got before.
C23_RoundTrip ==
    [][ (acc'.op = "NewContext" /\ acc' # acc /\ acc'.arg # NilCtx
             /\ acc'.lg # NilLogger) =>
          /\ acc'.out = "ok"
          /\ acc'.res = Len(ctxs) + 1 /\ Len(ctxs') = Len(ctxs) + 1
          /\ \A r \in 1..(Len(ctxs) + 1), l \in 1..Len(nodes) :
                 (r = acc'.res /\ l = acc'.lg) => fromCtx(r)' = l
          /\ \A c \in 1..Len(ctxs) : ctxs'[c] = ctxs[c] /\ fromCtx(c)' = fromCtx(c)
      ]_vars

\* the request's context binds the root; a context derived from it binds a stderr
\* logger: the accessor gets the stderr logger from the derived context and the
\* root from the request's context
C23_Witness ==
    /\ acc.op = "NewContext" /\ acc.out = "ok" /\ acc.arg = 2 /\ acc.lg = 2
    /\ Len(nodes) = 2 /\ IsStdErr(2)
    /\ fromCtx(acc.res) = 2 /\ fromCtx(2) = 1

C25_RecorderStatusAndLength ==
    /\ Status(sw) = IF sw.headers = 0 THEN 200 ELSE sw.last
    /\ Length(sw) = sw.reported
    /\ mw.pc = "final_lock" => mw.status = IF sw.headers = 0 THEN 200 ELSE sw.last

\* no WriteHeader call, two Write calls of which one failed after one byte:
\* status 200 and both byte counts in the length
C25_Witness ==
    /\ sw.headers = 0 /\ sw.writes = 2 /\ sw.errs = 1
    /\ Status(sw) = 200 /\ Length(sw) = 3
    /\ mw.pc = "final_lock" /\ mw.status = 200

====
